---- MODULE Spec2Model ----
(***************************************************************************)
(* ai-commit: one run of the command-line program of src/ai-commit.go.     *)
(* The main goroutine validates its environment, shells out to git twice,  *)
(* composes the prompt, starts the spinner goroutine, issues one blocking  *)
(* generation request, stops and joins the spinner and prints the result.  *)
(* Text is a sequence of characters; a character is a one-element string,  *)
(* and a fixed piece of wording of the source is kept as one character.    *)
(***************************************************************************)
EXTENDS Integers, Sequences, FiniteSets, TLC

VARIABLES
    pc,                \* position of the main goroutine in main()
    environ,           \* value of GEMINI_API_KEY in the process environment
    osArgs,            \* os.Args[1:]
    geminiApiKey,
    additionalContext,
    stagedDiff,
    promptText,
    result,            \* result.Text() of the generation response
    err,               \* err of the generation call
    gitCalls,          \* invocations of the git binary, in order
    clientCreated,     \* genai.NewClient returned a client
    genCalls,          \* invocations of client.Models.GenerateContent
    spinnerCtxDone,    \* spinnerCtx has been cancelled
    wg,                \* counter of the sync.WaitGroup
    spc,               \* position of the spinner goroutine
    i,                 \* showSpinner's glyph index
    tickerC,           \* a tick is buffered in ticker.C
    out,               \* every write of the process, in order
    term,              \* what the error stream's terminal line shows
    exitCode

vars == <<pc, environ, osArgs, geminiApiKey, additionalContext, stagedDiff,
          promptText, result, err, gitCalls, clientCreated, genCalls,
          spinnerCtxDone, wg, spc, i, tickerC, out, term, exitCode>>

envVars  == <<environ, osArgs>>
mainVars == <<geminiApiKey, additionalContext, stagedDiff, promptText, result, err>>
callVars == <<gitCalls, clientCreated, genCalls>>
syncVars == <<spinnerCtxDone, wg>>
spinVars == <<spc, i, tickerC>>
ioVars   == <<out, term>>

----------------------------------------------------------------------------
(* Bounds of the model *)

MaxTicks == 11       \* ticks the spinner may consume in one run
TermCols == 40       \* columns of the terminal
MaxArgs == 2         \* command-line arguments (prompt specification)
MaxArgLen == 1       \* characters of one argument (prompt specification)
MaxDiffLen == 2      \* characters of the staged diff (prompt specification)

----------------------------------------------------------------------------
(* Text helpers *)

\* strings.Repeat
Repeat(s, n) ==
    IF n <= 0 \/ s = <<>> THEN <<>>
    ELSE [k \in 1..(n * Len(s)) |-> s[((k - 1) % Len(s)) + 1]]

\* strings.Join
RECURSIVE Join(_, _)
Join(elems, sep) ==
    IF elems = <<>> THEN <<>>
    ELSE IF Len(elems) = 1 THEN elems[1]
    ELSE elems[1] \o sep \o Join(Tail(elems), sep)

WhiteSpace == {" ", "\n", "\t", "\r"}

\* strings.TrimSpace
RECURSIVE TrimLeft(_)
TrimLeft(s) == IF s # <<>> /\ Head(s) \in WhiteSpace THEN TrimLeft(Tail(s)) ELSE s

RECURSIVE TrimRight(_)
TrimRight(s) ==
    IF s # <<>> /\ s[Len(s)] \in WhiteSpace THEN TrimRight(SubSeq(s, 1, Len(s) - 1)) ELSE s

TrimSpace(s) == TrimRight(TrimLeft(s))

\* fmt.Sprintf for formats whose only verb is %s: each verb takes the next
\* argument as it is; arguments are never scanned for verbs.
RECURSIVE Sprintf(_, _)
Sprintf(format, args) ==
    IF format = <<>>
      THEN IF args = <<>> THEN <<>> ELSE <<"%!(EXTRA string)">>
    ELSE IF Head(format) = "%s"
      THEN IF args = <<>>
             THEN <<"%!s(MISSING)">> \o Sprintf(Tail(format), <<>>)
             ELSE Head(args) \o Sprintf(Tail(format), Tail(args))
    ELSE <<Head(format)>> \o Sprintf(Tail(format), args)

\* All sequences over S of length at most n
SeqsUpTo(S, n) == UNION {[1..k -> S] : k \in 0..n}

RECURSIVE Count(_, _)
Count(c, s) == IF s = <<>> THEN 0 ELSE (IF Head(s) = c THEN 1 ELSE 0) + Count(c, Tail(s))

\* positions at which t occurs in s
Occurrences(t, s) ==
    {k \in 1..(Len(s) - Len(t) + 1) : SubSeq(s, k, k + Len(t) - 1) = t}

\* first position of character c in s, Len(s)+1 when absent
FirstIndex(c, s) ==
    IF \E k \in 1..Len(s) : s[k] = c
      THEN CHOOSE k \in 1..Len(s) : s[k] = c /\ \A j \in 1..(k - 1) : s[j] # c
      ELSE Len(s) + 1

----------------------------------------------------------------------------
(* Constants of the program *)

Robot == "robot"     \* the robot-face emoji that opens the status message

spinnerChars == <<"g0", "g1", "g2", "g3", "g4", "g5", "g6", "g7", "g8", "g9">>

Glyphs == {spinnerChars[k] : k \in 1..Len(spinnerChars)}

geminiModel ==
    <<"g","e","m","i","n","i","-","2",".","5","-","f","l","a","s","h","-",
      "p","r","e","v","i","e","w","-","0","5","-","2","0">>

spinnerMessage == Sprintf(<<Robot, " ", "%s">>, <<geminiModel>>)

\* bytes of the UTF-8 encoding of a character: what Go's len() counts
Utf8Len(c) == IF c = Robot THEN 4 ELSE IF c \in Glyphs THEN 3 ELSE 1

\* columns a character takes on the terminal
Width(c) == IF c = Robot THEN 2 ELSE 1

RECURSIVE ByteLen(_)
ByteLen(s) == IF s = <<>> THEN 0 ELSE Utf8Len(Head(s)) + ByteLen(Tail(s))

\* Wording of the prompt template, one character per fixed passage
Instructions == "You are an AI assistant ... Distill the essence of the changes."
HereIsDiff   == "Here is the git diff of the changes:"
DiffMarker   == "\\\\\\ diff"
Closing      == "Based ONLY on the diff provided ... Every time.**"
HintIntro    == "User-provided hint/context for this commit: "
HintOutro    == "Please take this hint into account when generating the commit message."

promptTemplate ==
    <<Instructions, "%s", "\n", HereIsDiff, "\n", DiffMarker, "\n", "%s", "\n",
      DiffMarker, "\n", Closing>>

hintFormat == <<HintIntro, "%s", "\n", HintOutro, "\n">>

----------------------------------------------------------------------------
(* The terminal the error stream is attached to: one line of cells and a   *)
(* cursor column. A wide character takes two cells.                        *)

WideTail == "wide-tail"

BlankLine == [k \in 1..TermCols |-> " "]

BlankTerm == [line |-> BlankLine, col |-> 0]

\* One character reaches the terminal. A carriage return moves the cursor to
\* column 0, a newline starts a fresh line, any other character is put at the
\* cursor and moves it by its width (a full line wraps to a fresh one).
TermPut(t, c) ==
    IF c = "\r" THEN [t EXCEPT !.col = 0]
    ELSE IF c = "\n" THEN BlankTerm
    ELSE LET u  == IF t.col + Width(c) > TermCols THEN BlankTerm ELSE t
             w  == Width(c)
             \* a wide character loses its other half when one half is overwritten
             l1 == IF u.col >= 1 /\ u.line[u.col + 1] = WideTail
                     THEN [u.line EXCEPT ![u.col] = " "] ELSE u.line
             l2 == [l1 EXCEPT ![u.col + 1] = c]
             l3 == IF w = 2 THEN [l2 EXCEPT ![u.col + 2] = WideTail] ELSE l2
             l4 == IF u.col + w + 1 <= TermCols /\ l3[u.col + w + 1] = WideTail
                     THEN [l3 EXCEPT ![u.col + w + 1] = " "] ELSE l3
         IN  [line |-> l4, col |-> u.col + w]

\* The terminal after the characters of s, in order: the first half of s,
\* then the second half on the terminal the first half left. (Each half and
\* each intermediate terminal is bound as a set element, which makes TLC
\* evaluate it once.)
RECURSIVE TermWrite(_, _)
TermWrite(t, s) ==
    IF Len(s) = 0 THEN t
    ELSE IF Len(s) = 1 THEN TermPut(t, s[1])
    ELSE LET h == Len(s) \div 2
         IN  CHOOSE r \in {TermWrite(half, second) :
                             half \in {TermWrite(t, first) : first \in {SubSeq(s, 1, h)}},
                             second \in {SubSeq(s, h + 1, Len(s))}} : TRUE

----------------------------------------------------------------------------
(* Writes of the process *)

Write(stream, who, data) == [stream |-> stream, who |-> who, data |-> data]

\* fmt.Fprintf(os.Stderr, ...) of the spinner goroutine
SpinnerWrites(data) ==
    \E text \in {data} :
        /\ out' = Append(out, Write("stderr", "spinner", text))
        /\ term' = TermWrite(term, text)

Timestamp == "2006/01/02 15:04:05 "

\* the line the standard logger prints: prefix, message, a newline if missing
LogLine(msg) ==
    <<Timestamp>> \o msg \o (IF msg # <<>> /\ msg[Len(msg)] = "\n" THEN <<>> ELSE <<"\n">>)

\* log.Fatal / log.Fatalf: print to the error stream, then os.Exit(1)
LogFatal(msg) ==
    \E text \in {LogLine(msg)} :
        /\ out' = Append(out, Write("stderr", "main", text))
        /\ term' = TermWrite(term, text)
        /\ pc' = "fatal"

NoKeyMsg     == "GEMINI_API_KEY environment variable is not set."
GitStatusMsg == "Error checking git repository status: "
NotRepoMsg   == "Not inside a git repository."
DiffErrMsg   == "Error getting staged diff: "
NoStagedMsg  == "No staged files to commit."
ClientErrMsg == "Error creating client: "
GenErrMsg    == "Error generating commit message : "

----------------------------------------------------------------------------
(* Inputs *)

Unset == "<unset>"

\* os.Getenv: an unset variable reads as the empty string
Getenv(v) == IF v = Unset THEN "" ELSE v

Environs == {Unset, "", "key"}

Args  == {<<>>, << <<"x">> >>}
Diffs == {<<>>, <<"+">>}

InputAlphabet == {"x", HintIntro, DiffMarker}

WideArgs  == SeqsUpTo(SeqsUpTo(InputAlphabet, MaxArgLen), MaxArgs)
WideDiffs == SeqsUpTo(InputAlphabet, MaxDiffLen)

GitErrors == {"exit status 128"}
RevParseOutputs == {<<"t","r","u","e","\n">>, <<"f","a","l","s","e","\n">>}
ClientErrors == {"invalid client config"}
GenErrors == {"connection refused", "quota exceeded"}
Texts == {<<>>, <<"fix: subject">>, <<"feat: subject", "\n", "\n", "body">>}

\* a nil error
Nil == "<nil>"

\* a text variable that holds no value (not yet assigned, or a nil response)
NoText == <<"<none>">>

----------------------------------------------------------------------------
(* The prompt composer *)

\* lines 84-91
HintBlock(args) ==
    IF Len(args) > 0
      THEN <<"\n">> \o Sprintf(hintFormat, <<Join(args, <<" ">>)>>)
      ELSE <<>>

\* PromptOf with the two arguments of Sprintf exchanged
PromptOfSwapped(context, diff) == Sprintf(promptTemplate, <<diff, context>>)

\* line 109
PromptOf(context, diff) == Sprintf(promptTemplate, <<context, diff>>)

----------------------------------------------------------------------------
(* The main goroutine *)

InitWith(argSet) ==
    /\ pc = "getenv"
    /\ environ \in Environs
    /\ osArgs \in argSet
    /\ geminiApiKey = ""
    /\ additionalContext = <<>>
    /\ stagedDiff = NoText
    /\ promptText = NoText
    /\ result = NoText
    /\ err = Nil
    /\ gitCalls = <<>>
    /\ clientCreated = FALSE
    /\ genCalls = 0
    /\ spinnerCtxDone = FALSE
    /\ wg = 0
    /\ spc = "none"
    /\ i = 0
    /\ tickerC = FALSE
    /\ out = <<>>
    /\ term = BlankTerm
    /\ exitCode = -1

Init == InitWith(Args)

\* CheckApiKey without the test of line 80
CheckApiKeySkipped ==
    /\ pc = "getenv"
    /\ geminiApiKey' = Getenv(environ)
    /\ pc' = "args"
    /\ UNCHANGED <<envVars, additionalContext, stagedDiff, promptText, result, err,
                   callVars, syncVars, spinVars, ioVars, exitCode>>

\* lines 78-82
CheckApiKey ==
    /\ pc = "getenv"
    /\ geminiApiKey' = Getenv(environ)
    /\ IF geminiApiKey' = ""
         THEN LogFatal(<<NoKeyMsg>>)
         ELSE pc' = "args" /\ UNCHANGED ioVars
    /\ UNCHANGED <<envVars, additionalContext, stagedDiff, promptText, result, err,
                   callVars, syncVars, spinVars, exitCode>>

\* lines 84-91
ReadArgs ==
    /\ pc = "args"
    /\ additionalContext' = HintBlock(osArgs)
    /\ pc' = "revparse"
    /\ UNCHANGED <<envVars, geminiApiKey, stagedDiff, promptText, result, err,
                   callVars, syncVars, spinVars, ioVars, exitCode>>

\* lines 93-99
GitRevParse ==
    /\ pc = "revparse"
    /\ gitCalls' = Append(gitCalls, "rev-parse --is-inside-work-tree")
    /\ \/ \E e \in GitErrors : LogFatal(<<GitStatusMsg, e>>)
       \/ \E insideGitRepoOutput \in RevParseOutputs :
            IF TrimSpace(insideGitRepoOutput) # <<"t","r","u","e">>
              THEN LogFatal(<<NotRepoMsg>>)
              ELSE pc' = "diff" /\ UNCHANGED ioVars
    /\ UNCHANGED <<envVars, mainVars, clientCreated, genCalls, syncVars, spinVars,
                   exitCode>>

\* GitDiffStaged without the test of line 105
GitDiffStagedNoEmptyCheck(outputs) ==
    /\ pc = "diff"
    /\ gitCalls' = Append(gitCalls, "diff --staged --patch --unified=5")
    /\ \/ /\ \E e \in GitErrors : LogFatal(<<DiffErrMsg, e>>)
          /\ UNCHANGED stagedDiff
       \/ \E d \in outputs :
            /\ stagedDiff' = d
            /\ pc' = "compose"
            /\ UNCHANGED ioVars
    /\ UNCHANGED <<envVars, geminiApiKey, additionalContext, promptText, result, err,
                   clientCreated, genCalls, syncVars, spinVars, exitCode>>

\* lines 101-107
GitDiffStaged(outputs) ==
    /\ pc = "diff"
    /\ gitCalls' = Append(gitCalls, "diff --staged --patch --unified=5")
    /\ \/ /\ \E e \in GitErrors : LogFatal(<<DiffErrMsg, e>>)
          /\ UNCHANGED stagedDiff
       \/ \E d \in outputs :
            /\ stagedDiff' = d
            /\ IF Len(d) = 0
                 THEN LogFatal(<<NoStagedMsg>>)
                 ELSE pc' = "compose" /\ UNCHANGED ioVars
    /\ UNCHANGED <<envVars, geminiApiKey, additionalContext, promptText, result, err,
                   clientCreated, genCalls, syncVars, spinVars, exitCode>>

\* line 109
ComposePrompt ==
    /\ pc = "compose"
    /\ promptText' = PromptOf(additionalContext, stagedDiff)
    /\ pc' = "newclient"
    /\ UNCHANGED <<envVars, geminiApiKey, additionalContext, stagedDiff, result, err,
                   callVars, syncVars, spinVars, ioVars, exitCode>>

\* lines 111-119
NewClient ==
    /\ pc = "newclient"
    /\ \/ /\ \E e \in ClientErrors : LogFatal(<<ClientErrMsg, e>>)
          /\ UNCHANGED clientCreated
       \/ /\ clientCreated' = TRUE
          /\ pc' = "spinner"
          /\ UNCHANGED ioVars
    /\ UNCHANGED <<envVars, mainVars, gitCalls, genCalls, syncVars, spinVars, exitCode>>

\* lines 121-130: WithCancel, wg.Add(1), go func
StartSpinner ==
    /\ pc = "spinner"
    /\ spinnerCtxDone' = FALSE
    /\ wg' = wg + 1
    /\ spc' = "spawned"
    /\ pc' = "generate"
    /\ UNCHANGED <<envVars, mainVars, callVars, i, tickerC, ioVars, exitCode>>

\* lines 132-137: the request is sent
GenerateCall ==
    /\ pc = "generate"
    /\ genCalls' = genCalls + 1
    /\ pc' = "awaiting"
    /\ UNCHANGED <<envVars, mainVars, gitCalls, clientCreated, syncVars, spinVars,
                   ioVars, exitCode>>

\* line 132: the blocking call returns a response or an error
GenerateReturn ==
    /\ pc = "awaiting"
    /\ \/ \E t \in Texts : result' = t /\ err' = Nil
       \/ \E e \in GenErrors : result' = NoText /\ err' = e
    /\ pc' = "cancel"
    /\ UNCHANGED <<envVars, geminiApiKey, additionalContext, stagedDiff, promptText,
                   callVars, syncVars, spinVars, ioVars, exitCode>>

\* line 139
CancelSpinner ==
    /\ pc = "cancel"
    /\ spinnerCtxDone' = TRUE
    /\ pc' = "wait"
    /\ UNCHANGED <<envVars, mainVars, callVars, wg, spinVars, ioVars, exitCode>>

\* WaitSpinner that does not block on the WaitGroup
WaitSpinnerNoJoin ==
    /\ pc = "wait"
    /\ pc' = "checkerr"
    /\ UNCHANGED <<envVars, mainVars, callVars, syncVars, spinVars, ioVars, exitCode>>

\* line 140
WaitSpinner ==
    /\ pc = "wait"
    /\ wg = 0
    /\ pc' = "checkerr"
    /\ UNCHANGED <<envVars, mainVars, callVars, syncVars, spinVars, ioVars, exitCode>>

\* CheckGenerateErr that sends the request again after an error
CheckGenerateErrRetry ==
    /\ pc = "checkerr"
    /\ pc' = IF err # Nil THEN "generate" ELSE "print"
    /\ UNCHANGED <<envVars, mainVars, callVars, syncVars, spinVars, ioVars, exitCode>>

\* lines 142-144
CheckGenerateErr ==
    /\ pc = "checkerr"
    /\ IF err # Nil
         THEN LogFatal(<<GenErrMsg, err>>)
         ELSE pc' = "print" /\ UNCHANGED ioVars
    /\ UNCHANGED <<envVars, mainVars, callVars, syncVars, spinVars, exitCode>>

\* PrintResult with fmt.Print in place of fmt.Println
PrintResultNoNewline ==
    /\ pc = "print"
    /\ out' = Append(out, Write("stdout", "main", result))
    /\ pc' = "return"
    /\ UNCHANGED <<envVars, mainVars, callVars, syncVars, spinVars, term, exitCode>>

\* line 146
PrintResult ==
    /\ pc = "print"
    /\ out' = Append(out, Write("stdout", "main", result \o <<"\n">>))
    /\ pc' = "return"
    /\ UNCHANGED <<envVars, mainVars, callVars, syncVars, spinVars, term, exitCode>>

\* line 147: main returns, the process exits with status 0
MainReturn ==
    /\ pc = "return"
    /\ pc' = "exited"
    /\ exitCode' = 0
    /\ UNCHANGED <<envVars, mainVars, callVars, syncVars, spinVars, ioVars>>

\* os.Exit(1) at the end of log.Fatal
OsExit ==
    /\ pc = "fatal"
    /\ pc' = "exited"
    /\ exitCode' = 1
    /\ UNCHANGED <<envVars, mainVars, callVars, syncVars, spinVars, ioVars>>

----------------------------------------------------------------------------
(* The spinner goroutine: showSpinner, run by the go statement of main     *)

Alive == pc # "exited"

\* writes of the spinner that redraw the frame after a tick
TickFrames == {k \in DOMAIN out : out[k].who = "spinner" /\ out[k].data[Len(out[k].data)] \in Glyphs
                                   /\ out[k].data[1] = "\r"}

TicksTaken == Cardinality(TickFrames)

\* line 61 and line 70: the status message, a space, the glyph
Frame(message, glyph) == Sprintf(<<"%s", " ", "%s">>, <<message, <<glyph>>>>)

\* EraseSequence without the closing carriage return
EraseNoReturn(message) ==
    Sprintf(<<"\r", "%s">>, <<Repeat(<<" ">>, ByteLen(message) + 1 + 1)>>)

\* line 66
EraseSequence(message) ==
    Sprintf(<<"\r", "%s", "\r">>, <<Repeat(<<" ">>, ByteLen(message) + 1 + 1)>>)

\* NextGlyph that wraps one glyph early
NextGlyphShort(n) == (n + 1) % (Len(spinnerChars) - 1)

\* line 69
NextGlyph(n) == (n + 1) % Len(spinnerChars)

\* lines 56-59: the goroutine starts; the ticker is created
SpinnerStart ==
    /\ Alive
    /\ spc = "spawned"
    /\ i' = 0
    /\ tickerC' = FALSE
    /\ spc' = "first"
    /\ UNCHANGED <<pc, envVars, mainVars, callVars, syncVars, ioVars, exitCode>>

\* the ticker's timer fires (every 100ms) and leaves a tick in ticker.C;
\* a tick that finds the channel full is dropped
TimerFires ==
    /\ Alive
    /\ spc \in {"first", "loop", "erased"}
    /\ ~tickerC
    /\ TicksTaken < MaxTicks
    /\ tickerC' = TRUE
    /\ UNCHANGED <<pc, envVars, mainVars, callVars, syncVars, spc, i, ioVars, exitCode>>

\* line 61
SpinnerFirstFrame ==
    /\ Alive
    /\ spc = "first"
    /\ SpinnerWrites(Frame(spinnerMessage, spinnerChars[0 + 1]))
    /\ spc' = "loop"
    /\ UNCHANGED <<pc, envVars, mainVars, callVars, syncVars, i, tickerC, exitCode>>

\* lines 68-70: select takes the ticker case
SpinnerTick ==
    /\ Alive
    /\ spc = "loop"
    /\ tickerC
    /\ tickerC' = FALSE
    /\ i' = NextGlyph(i)
    /\ SpinnerWrites(<<"\r">> \o Frame(spinnerMessage, spinnerChars[i' + 1]))
    /\ UNCHANGED <<pc, envVars, mainVars, callVars, syncVars, spc, exitCode>>

\* lines 65-67: select takes the ctx.Done() case
SpinnerErase ==
    /\ Alive
    /\ spc = "loop"
    /\ spinnerCtxDone
    /\ SpinnerWrites(EraseSequence(spinnerMessage))
    /\ spc' = "erased"
    /\ UNCHANGED <<pc, envVars, mainVars, callVars, syncVars, i, tickerC, exitCode>>

\* SpinnerReturn without the deferred wg.Done
SpinnerReturnNoDone ==
    /\ Alive
    /\ spc = "erased"
    /\ spc' = "done"
    /\ UNCHANGED <<pc, envVars, mainVars, callVars, syncVars, i, tickerC, ioVars, exitCode>>

\* line 67 return, line 59 deferred ticker.Stop, line 128 deferred wg.Done
SpinnerReturn ==
    /\ Alive
    /\ spc = "erased"
    /\ spc' = "done"
    /\ wg' = wg - 1
    /\ UNCHANGED <<pc, envVars, mainVars, callVars, spinnerCtxDone, i, tickerC, ioVars,
                   exitCode>>

----------------------------------------------------------------------------
(* Specifications *)

Next ==
    \/ CheckApiKey
    \/ ReadArgs
    \/ GitRevParse
    \/ GitDiffStaged(Diffs)
    \/ ComposePrompt
    \/ NewClient
    \/ StartSpinner
    \/ GenerateCall
    \/ GenerateReturn
    \/ CancelSpinner
    \/ WaitSpinner
    \/ CheckGenerateErr
    \/ PrintResult
    \/ MainReturn
    \/ OsExit
    \/ SpinnerStart
    \/ TimerFires
    \/ SpinnerFirstFrame
    \/ SpinnerTick
    \/ SpinnerErase
    \/ SpinnerReturn

Spec == Init /\ [][Next]_vars

\* The Go scheduler runs every runnable goroutine; select chooses at random
\* among its ready cases, so a case that stays ready (the stop branch, once
\* the signal is set) is eventually taken.
\* The remote service and the timer are not assumed to act.
Fairness ==
    /\ WF_vars(CheckApiKey) /\ WF_vars(ReadArgs) /\ WF_vars(GitRevParse)
    /\ WF_vars(GitDiffStaged(Diffs)) /\ WF_vars(ComposePrompt) /\ WF_vars(NewClient)
    /\ WF_vars(StartSpinner) /\ WF_vars(GenerateCall) /\ WF_vars(CancelSpinner)
    /\ WF_vars(WaitSpinner) /\ WF_vars(CheckGenerateErr) /\ WF_vars(PrintResult)
    /\ WF_vars(MainReturn) /\ WF_vars(OsExit)
    /\ WF_vars(SpinnerStart) /\ WF_vars(SpinnerFirstFrame) /\ WF_vars(SpinnerReturn)
    /\ WF_vars(SpinnerErase)

FairSpec == Spec /\ Fairness

\* The prompt composer alone, over wide sets of arguments and diffs
PromptInit == InitWith(WideArgs)

PromptNext ==
    \/ CheckApiKey
    \/ ReadArgs
    \/ GitRevParse
    \/ GitDiffStaged(WideDiffs)
    \/ ComposePrompt
    \/ OsExit

PromptSpec == PromptInit /\ [][PromptNext]_vars

----------------------------------------------------------------------------
(* What the properties speak of *)

Exited == pc = "exited"

Stdout == SelectSeq(out, LAMBDA w : w.stream = "stdout")

SpinnerOutput == SelectSeq(out, LAMBDA w : w.who = "spinner")

\* the frames the spinner drew (the erase sequence ends with a carriage return)
SpinnerFrames == SelectSeq(SpinnerOutput, LAMBDA w : w.data[Len(w.data)] \in Glyphs)

\* the main goroutine's final writes: the result, or the generation error
FinalWrites ==
    {k \in DOMAIN out :
       /\ out[k].who = "main"
       /\ \/ out[k].stream = "stdout"
          \/ \E j \in DOMAIN out[k].data : out[k].data[j] = GenErrMsg}

\* a fatal message m is the last thing the process wrote
LastWriteIsFatal(m) ==
    /\ out # <<>>
    /\ out[Len(out)].stream = "stderr"
    /\ out[Len(out)].who = "main"
    /\ \E j \in DOMAIN out[Len(out)].data : out[Len(out)].data[j] = m

\* columns a text takes on the terminal
DisplayWidth(s) == Len(s) + Cardinality({k \in DOMAIN s : Width(s[k]) = 2})

\* the free-text hint: the arguments joined with single spaces
Hint == Join(osArgs, <<" ">>)

----------------------------------------------------------------------------
(* Properties *)

\* C1: once the generation call has returned, the main goroutine has set the
\* stop signal before it waits, and the spinner has finished before the main
\* goroutine goes past the join; every write of the spinner comes before the
\* main goroutine's write of the result or of the generation error, and the
\* spinner is finished when that write is made.
C1_SpinnerWritesBeforeFinalWrite ==
    /\ pc \in {"wait", "checkerr", "print", "return"} => spinnerCtxDone
    /\ pc \in {"checkerr", "print", "return"} => spc = "done" /\ wg = 0
    /\ FinalWrites # {} => spc = "done"
    /\ \A k \in FinalWrites : \A j \in DOMAIN out : out[j].who = "spinner" => j < k

C1_Witness ==
    /\ Exited
    /\ err # Nil
    /\ FinalWrites # {}
    /\ Len(SpinnerFrames) >= 3

\* C2: a captured staged diff that is empty ends the run fatally with the
\* "No staged files" message, exit status 1, no prompt, no client, no spinner
\* and no generation request.
C2_EmptyDiffIsFatal ==
    stagedDiff = <<>> =>
        /\ pc \in {"fatal", "exited"}
        /\ Exited => exitCode = 1
        /\ LastWriteIsFatal(NoStagedMsg)
        /\ Stdout = <<>>
        /\ promptText = NoText
        /\ ~clientCreated
        /\ spc = "none"
        /\ genCalls = 0

C2_Witness == stagedDiff = <<>> /\ Exited /\ exitCode = 1

\* C3: with the credential variable unset or empty the run ends fatally, exit
\* status 1, with git never invoked and no generation request.
C3_MissingKeyIsFatal ==
    (environ \in {Unset, ""} /\ pc # "getenv") =>
        /\ pc \in {"fatal", "exited"}
        /\ Exited => exitCode = 1
        /\ LastWriteIsFatal(NoKeyMsg)
        /\ gitCalls = <<>>
        /\ genCalls = 0
        /\ Stdout = <<>>

C3_Witness == environ = Unset /\ Exited /\ exitCode = 1 /\ gitCalls = <<>>

\* C4: standard output is written at most once, only after the generation call
\* returned without error, and then holds the returned text and one newline;
\* at exit it holds that (status 0) or nothing (status 1).
C4_StdoutAllOrNothing ==
    /\ Len(Stdout) <= 1
    /\ Stdout # <<>> =>
         /\ pc \in {"return", "exited"}
         /\ genCalls = 1
         /\ err = Nil
         /\ result \in Texts
         /\ Stdout[1].data = result \o <<"\n">>
    /\ Exited =>
         \/ exitCode = 0 /\ Len(Stdout) = 1
         \/ exitCode = 1 /\ Stdout = <<>>

C4_Witness ==
    /\ Exited
    /\ exitCode = 0
    /\ Stdout = <<Write("stdout", "main", <<"feat: subject", "\n", "\n", "body", "\n">>)>>

\* C5: the generation request is issued at most once; a successful exit has
\* issued it exactly once; an error of the request leads to the fatal exit
\* (status 1, the error text on the error stream, nothing on standard output)
\* with no second request.
C5_OneRequest ==
    /\ genCalls <= 1
    /\ (Exited /\ exitCode = 0) => genCalls = 1
    /\ err # Nil =>
         /\ genCalls = 1
         /\ pc \in {"cancel", "wait", "checkerr", "fatal", "exited"}
         /\ Stdout = <<>>
         /\ Exited => exitCode = 1
         /\ pc \in {"fatal", "exited"} => LastWriteIsFatal(GenErrMsg) /\ LastWriteIsFatal(err)

C5_Witness == err = "quota exceeded" /\ Exited /\ genCalls = 1

\* C6: when the spinner has taken the stop branch, its last write is a carriage
\* return, spaces at least as wide as a frame, and a carriage return; the
\* terminal line is then blank with the cursor at column 0.
C6_EraseIsLast ==
    spc \in {"erased", "done"} =>
        LET last == SpinnerOutput[Len(SpinnerOutput)].data
            n    == Len(last)
        IN  /\ spinnerCtxDone
            /\ n >= 2
            /\ last[1] = "\r"
            /\ last[n] = "\r"
            /\ \A k \in 2..(n - 1) : last[k] = " "
            /\ n - 2 >= DisplayWidth(Frame(spinnerMessage, spinnerChars[1]))
            /\ \A k \in 1..TermCols : term.line[k] = " "
            /\ term.col = 0

C6_Witness ==
    /\ spc = "done"
    /\ pc = "wait"
    /\ Len(SpinnerFrames) >= 3

\* C10: there are ten distinct glyphs; the index stays within 0..9 and equals
\* the number of ticks taken modulo ten; the n-th frame drawn (counting from
\* 0) is the status message, a space and glyph n mod 10, the first frame
\* without and every later frame with a leading carriage return.
C10_GlyphCycle ==
    /\ Len(spinnerChars) = 10
    /\ Cardinality(Glyphs) = 10
    /\ i \in 0..9
    /\ spc \in {"loop", "erased", "done"} =>
         /\ Len(SpinnerFrames) = TicksTaken + 1
         /\ i = TicksTaken % 10
    /\ \A n \in DOMAIN SpinnerFrames :
         SpinnerFrames[n].data =
             (IF n = 1 THEN <<>> ELSE <<"\r">>)
             \o spinnerMessage \o <<" ", spinnerChars[((n - 1) % 10) + 1]>>

C10_Witness ==
    /\ Len(SpinnerFrames) = 12
    /\ i = 1
    /\ SpinnerFrames[11].data[Len(SpinnerFrames[11].data)] = "g0"

\* C9: under the fairness of the scheduler, once the generation call has
\* returned the run ends: the spinner finishes, the join is passed and the
\* process exits, with status 0 after a response and 1 after an error. While
\* the call has not returned the main goroutine stays where it is: only the
\* return of the call moves it on.
C9_TerminatesAfterReturn ==
    /\ (pc = "cancel") ~>
           (Exited /\ spc = "done" /\ wg = 0 /\ exitCode = (IF err = Nil THEN 0 ELSE 1))
    /\ [][pc = "awaiting" => pc' \in {"awaiting", "cancel"}]_vars
    /\ [](pc = "awaiting" => err = Nil /\ result = NoText /\ ~spinnerCtxDone)

C9_Witness ==
    /\ Exited
    /\ genCalls = 1
    /\ spc = "done"
    /\ Len(SpinnerFrames) >= 2

\* the opening delimiter marker of the template is followed by the diff text
\* as it is and by the closing marker, each on a line of its own
DiffDelimitedAt(a) ==
    /\ a + 3 + Len(stagedDiff) <= Len(promptText)
    /\ promptText[a] = DiffMarker
    /\ promptText[a + 1] = "\n"
    /\ SubSeq(promptText, a + 2, a + 1 + Len(stagedDiff)) = stagedDiff
    /\ promptText[a + 2 + Len(stagedDiff)] = "\n"
    /\ promptText[a + 3 + Len(stagedDiff)] = DiffMarker

HintWording == {HintIntro, HintOutro}

\* the hint paragraph for hint text h
HintParagraph(h) == <<"\n", HintIntro>> \o h \o <<"\n", HintOutro, "\n">>

\* the part of the prompt before position a
Before(a) == SubSeq(promptText, 1, a - 1)

\* the position of the template's opening marker, counted from the end of the
\* prompt: marker, newline, diff, newline, marker, newline, closing passage
OpeningMarker == Len(promptText) - Len(stagedDiff) - 5

Composed == promptText # NoText

\* C7: with an empty hint and a non-empty diff, the prompt holds the diff as
\* it is between the two delimiter markers, and holds no hint paragraph: no
\* hint wording outside the delimited diff.
C7_EmptyHintNoParagraph ==
    (Composed /\ Hint = <<>> /\ stagedDiff # <<>>) =>
        LET a == FirstIndex(DiffMarker, promptText)
        IN  /\ DiffDelimitedAt(a)
            /\ \A k \in DOMAIN promptText :
                 (k < a \/ k > a + 3 + Len(stagedDiff)) => promptText[k] \notin HintWording

\* C8 as stated: with a non-empty hint and a non-empty diff, the part of the
\* prompt before its first delimiter marker holds the hint paragraph, and the
\* hint wording occurs there once and nowhere after the delimited diff.
C8_OneParagraphBeforeFirstMarker ==
    (Composed /\ Hint # <<>> /\ stagedDiff # <<>>) =>
        LET a == FirstIndex(DiffMarker, promptText)
        IN  /\ Cardinality(Occurrences(HintParagraph(Hint), Before(a))) = 1
            /\ Count(HintIntro, Before(a)) = 1
            /\ promptText[Len(promptText)] \notin HintWording

\* C8 amended: with a non-empty hint and a non-empty diff, the part of the
\* prompt before the template's opening marker holds the hint paragraph once,
\* with the hint text as it is; hint wording and delimiter markers occur there
\* only as that paragraph's own wording and as part of the hint text itself;
\* the template's opening marker is the first marker of the prompt when the
\* hint text holds no marker; the diff follows it as it is.
C8_OneParagraphBeforeOpeningMarker ==
    (Composed /\ Hint # <<>> /\ stagedDiff # <<>>) =>
        LET a == OpeningMarker
        IN  /\ a >= 1
            /\ DiffDelimitedAt(a)
            /\ Cardinality(Occurrences(HintParagraph(Hint), Before(a))) = 1
            /\ Count(HintIntro, Before(a)) = 1 + Count(HintIntro, Hint)
            /\ Count(HintOutro, Before(a)) = 1 + Count(HintOutro, Hint)
            /\ Count(DiffMarker, Before(a)) = Count(DiffMarker, Hint)
            /\ Count(DiffMarker, Hint) = 0 => a = FirstIndex(DiffMarker, promptText)
            /\ promptText[Len(promptText)] \notin HintWording

C8_Witness ==
    /\ Composed
    /\ Len(osArgs) = 2
    /\ osArgs[1] = <<"x">>
    /\ osArgs[2] = <<DiffMarker>>
    /\ stagedDiff = <<HintIntro, DiffMarker>>

====
